---- MODULE Spec2Model ----
(***************************************************************************)
(* Model of source/log_parser/build_athena_queries.py: the pure builders   *)
(* that assemble the Athena queries for application access logs            *)
(* (CloudFront / ALB) and for WAF logs.                                    *)
(*                                                                         *)
(* Python strings are TLA+ strings; Len, SubSeq and \o act on them         *)
(* character by character.  A call of a builder is one action: it draws    *)
(* the arguments from bounded sets, and records them together with what    *)
(* the call returned or raised.                                            *)
(***************************************************************************)
EXTENDS Integers, Sequences, FiniteSets, TLC

VARIABLES fn, args, ret

vars == <<fn, args, ret>>

(***************************************************************************)
(* Bounds of the explored inputs.                                          *)
(***************************************************************************)
\* largest number of members in a per-country thresholds JSON object
MaxCountries == 2

(***************************************************************************)
(* Python built-ins used by the builders.                                  *)
(***************************************************************************)
CharAt(s, i) == SubSeq(s, i, i)

\* str(int)
RECURSIVE NatStr(_)
NatStr(n) ==
    IF n < 10 THEN CharAt("0123456789", n + 1)
    ELSE NatStr(n \div 10) \o CharAt("0123456789", (n % 10) + 1)

IntStr(n) == IF n < 0 THEN "-" \o NatStr(-n) ELSE NatStr(n)

\* str.zfill(width): pad with '0' on the left, after a leading sign
RECURSIVE ZeroPad(_, _)
ZeroPad(s, width) == IF Len(s) >= width THEN s ELSE ZeroPad("0" \o s, width)

zfill(s, width) ==
    IF Len(s) > 0 /\ CharAt(s, 1) \in {"+", "-"}
    THEN CharAt(s, 1) \o ZeroPad(SubSeq(s, 2, Len(s)), width - 1)
    ELSE ZeroPad(s, width)

\* str.lower() on ASCII text
UpperChars == "ABCDEFGHIJKLMNOPQRSTUVWXYZ"
LowerChars == "abcdefghijklmnopqrstuvwxyz"

LowerChar(c) ==
    IF \E k \in 1..26 : CharAt(UpperChars, k) = c
    THEN CharAt(LowerChars, CHOOSE k \in 1..26 : CharAt(UpperChars, k) = c)
    ELSE c

RECURSIVE lower(_)
lower(s) ==
    IF Len(s) = 0 THEN ""
    ELSE LowerChar(CharAt(s, 1)) \o lower(SubSeq(s, 2, Len(s)))

(***************************************************************************)
(* A call either returns a value or raises.                                *)
(***************************************************************************)
Returns(v) == [exc |-> "none", value |-> v]
Raises(e) == [exc |-> e, value |-> ""]

\* the statements F that follow a call x are skipped when the call raised:
\* no builder catches an exception (lines 141-145, 469-471, 431)
Propagate(x, F(_)) == IF x.exc # "none" THEN x ELSE F(x.value)

(***************************************************************************)
(* datetime.datetime: the fields the builders read, str() and the          *)
(* subtraction of a timedelta of whole minutes.                            *)
(***************************************************************************)
IsLeap(y) == (y % 4 = 0 /\ y % 100 # 0) \/ y % 400 = 0

DaysInMonth(y, m) ==
    IF m = 2 THEN (IF IsLeap(y) THEN 29 ELSE 28)
    ELSE IF m \in {4, 6, 9, 11} THEN 30 ELSE 31

DateTime(y, mo, d, h, mi, s, us) ==
    [year |-> y, month |-> mo, day |-> d, hour |-> h,
     minute |-> mi, second |-> s, microsecond |-> us]

\* datetime.date(): the calendar day
date(ts) == <<ts.year, ts.month, ts.day>>

\* str(datetime): 'YYYY-MM-DD HH:MM:SS', followed by '.ffffff' when the
\* microsecond is not zero
DateTimeStr(ts) ==
    zfill(IntStr(ts.year), 4) \o "-" \o zfill(IntStr(ts.month), 2) \o "-"
    \o zfill(IntStr(ts.day), 2) \o " " \o zfill(IntStr(ts.hour), 2) \o ":"
    \o zfill(IntStr(ts.minute), 2) \o ":" \o zfill(IntStr(ts.second), 2)
    \o (IF ts.microsecond = 0 THEN ""
        ELSE "." \o zfill(IntStr(ts.microsecond), 6))

\* the day before (y, mo, d)
PrevDay(y, mo, d) ==
    IF d > 1 THEN <<y, mo, d - 1>>
    ELSE IF mo > 1 THEN <<y, mo - 1, DaysInMonth(y, mo - 1)>>
    ELSE <<y - 1, 12, 31>>

\* the datetime of day dt whose minute of the day is m, m possibly negative
RECURSIVE NormalizeMinutes(_, _, _)
NormalizeMinutes(dt, m, ts) ==
    IF m >= 0
    THEN DateTime(dt[1], dt[2], dt[3], m \div 60, m % 60,
                  ts.second, ts.microsecond)
    ELSE NormalizeMinutes(PrevDay(dt[1], dt[2], dt[3]), m + 1440, ts)

\* end_timestamp - datetime.timedelta(seconds=60*waf_block_period)
MinusMinutes(ts, period) ==
    NormalizeMinutes(date(ts), ts.hour * 60 + ts.minute - period, ts)

\* start_timestamp < end_timestamp
TsKey(ts) == <<ts.year, ts.month, ts.day, ts.hour, ts.minute, ts.second,
               ts.microsecond>>

RECURSIVE LexLess(_, _)
LexLess(a, b) ==
    IF Len(a) = 0 THEN FALSE
    ELSE IF Head(a) # Head(b) THEN Head(a) < Head(b)
    ELSE LexLess(Tail(a), Tail(b))

Before(a, b) == LexLess(TsKey(a), TsKey(b))

(***************************************************************************)
(* build_athena_query_part_one_for_cloudfront_logs                         *)
(***************************************************************************)
build_athena_query_part_one_for_cloudfront_logs(database_name, table_name) ==
    "SELECT\n"
    \o "\tclient_ip,\n"
    \o "\tMAX_BY(counter, counter) as max_counter_per_min\n"
    \o " FROM (\n"
    \o "\tWITH logs_with_concat_data AS (\n"
    \o "\t\tSELECT\n"
    \o "\t\t\trequestip as client_ip,\n"
    \o "\t\t\tcast(status as varchar) as status,\n"
    \o "\t\t\tparse_datetime( concat( concat( format_datetime(date, 'yyyy-MM-dd'), '-' ), time ), 'yyyy-MM-dd-HH:mm:ss') AS datetime\n"
    \o "\t\tFROM\n"
    \o "\t\t\t"
    \o database_name \o "." \o table_name

(***************************************************************************)
(* build_athena_query_part_one_for_alb_logs                                *)
(***************************************************************************)
build_athena_query_part_one_for_alb_logs(database_name, table_name) ==
    "SELECT\n"
    \o "\tclient_ip,\n"
    \o "\tMAX_BY(counter, counter) as max_counter_per_min\n"
    \o " FROM (\n"
    \o "\tWITH logs_with_concat_data AS (\n"
    \o "\t\tSELECT\n"
    \o "\t\t\tclient_ip,\n"
    \o "\t\t\ttarget_status_code AS status,\n"
    \o "\t\t\tparse_datetime(time, 'yyyy-MM-dd''T''HH:mm:ss.SSSSSS''Z') AS datetime\n"
    \o "\t\tFROM\n"
    \o "\t\t\t"
    \o database_name \o "." \o table_name

(***************************************************************************)
(* build_athena_query_part_two_for_partition                               *)
(***************************************************************************)
\* a faulty variant: the hours are written without zero-padding
SameDayFilterUnpadded(start_timestamp, end_timestamp) ==
    "\n\t\tWHERE year = " \o IntStr(start_timestamp.year) \o "\n"
    \o "\t\tAND month = " \o zfill(IntStr(start_timestamp.month), 2) \o "\n"
    \o "\t\tAND day = " \o zfill(IntStr(start_timestamp.day), 2) \o "\n"
    \o "\t\tAND hour between "
    \o IntStr(start_timestamp.hour) \o " and " \o IntStr(end_timestamp.hour)

SameDayFilter(start_timestamp, end_timestamp) ==
    "\n\t\tWHERE year = " \o IntStr(start_timestamp.year) \o "\n"
    \o "\t\tAND month = " \o zfill(IntStr(start_timestamp.month), 2) \o "\n"
    \o "\t\tAND day = " \o zfill(IntStr(start_timestamp.day), 2) \o "\n"
    \o "\t\tAND hour between "
    \o zfill(IntStr(start_timestamp.hour), 2) \o " and "
    \o zfill(IntStr(end_timestamp.hour), 2)

\* faulty variant: the start's hour partition is left out
SameMonthFilterExclusiveStart(start_timestamp, end_timestamp) ==
    "\n\t\tWHERE year = " \o IntStr(start_timestamp.year) \o "\n"
    \o "\t\tAND month = " \o zfill(IntStr(start_timestamp.month), 2) \o "\n"
    \o "\t\tAND (\n"
    \o "\t\t\t(day = " \o zfill(IntStr(start_timestamp.day), 2)
    \o " AND hour > " \o zfill(IntStr(start_timestamp.hour), 2) \o ")\n"
    \o "\t\t\tOR (day = " \o zfill(IntStr(end_timestamp.day), 2)
    \o " AND hour <= " \o zfill(IntStr(end_timestamp.hour), 2) \o ")\n"
    \o "\t\t)\n"

SameMonthFilter(start_timestamp, end_timestamp) ==
    "\n\t\tWHERE year = " \o IntStr(start_timestamp.year) \o "\n"
    \o "\t\tAND month = " \o zfill(IntStr(start_timestamp.month), 2) \o "\n"
    \o "\t\tAND (\n"
    \o "\t\t\t(day = " \o zfill(IntStr(start_timestamp.day), 2)
    \o " AND hour >= " \o zfill(IntStr(start_timestamp.hour), 2) \o ")\n"
    \o "\t\t\tOR (day = " \o zfill(IntStr(end_timestamp.day), 2)
    \o " AND hour <= " \o zfill(IntStr(end_timestamp.hour), 2) \o ")\n"
    \o "\t\t)\n"

\* a faulty variant: the end's disjunct is qualified by the start's month
SameYearFilterOneMonth(start_timestamp, end_timestamp) ==
    "\n\t\tWHERE year = " \o IntStr(start_timestamp.year) \o "\n"
    \o "\t\tAND (\n"
    \o "\t\t\t(month = " \o zfill(IntStr(start_timestamp.month), 2)
    \o " AND day = " \o zfill(IntStr(start_timestamp.day), 2)
    \o " AND hour >= " \o zfill(IntStr(start_timestamp.hour), 2) \o ")\n"
    \o "\t\t\tOR (month = " \o zfill(IntStr(start_timestamp.month), 2)
    \o " AND day = " \o zfill(IntStr(end_timestamp.day), 2)
    \o " AND hour <= " \o zfill(IntStr(end_timestamp.hour), 2) \o ")\n"
    \o "\t\t)\n"

SameYearFilter(start_timestamp, end_timestamp) ==
    "\n\t\tWHERE year = " \o IntStr(start_timestamp.year) \o "\n"
    \o "\t\tAND (\n"
    \o "\t\t\t(month = " \o zfill(IntStr(start_timestamp.month), 2)
    \o " AND day = " \o zfill(IntStr(start_timestamp.day), 2)
    \o " AND hour >= " \o zfill(IntStr(start_timestamp.hour), 2) \o ")\n"
    \o "\t\t\tOR (month = " \o zfill(IntStr(end_timestamp.month), 2)
    \o " AND day = " \o zfill(IntStr(end_timestamp.day), 2)
    \o " AND hour <= " \o zfill(IntStr(end_timestamp.hour), 2) \o ")\n"
    \o "\t\t)\n"

\* a faulty variant: the year is stated once, before the two brackets
CrossYearFilterSharedYear(start_timestamp, end_timestamp) ==
    "\n\t\tWHERE year = " \o IntStr(start_timestamp.year) \o " AND (\n"
    \o "\t\t\tmonth = " \o zfill(IntStr(start_timestamp.month), 2) \o "\n"
    \o "\t\t\tAND day = " \o zfill(IntStr(start_timestamp.day), 2) \o "\n"
    \o "\t\t\tAND hour >= " \o zfill(IntStr(start_timestamp.hour), 2) \o ")\n"
    \o "\t\tOR (month = " \o zfill(IntStr(end_timestamp.month), 2) \o "\n"
    \o "\t\t\tAND day = " \o zfill(IntStr(end_timestamp.day), 2) \o "\n"
    \o "\t\t\tAND hour <= " \o zfill(IntStr(end_timestamp.hour), 2) \o ")\n"

CrossYearFilter(start_timestamp, end_timestamp) ==
    "\n\t\tWHERE (year = " \o IntStr(start_timestamp.year) \o "\n"
    \o "\t\t\tAND month = " \o zfill(IntStr(start_timestamp.month), 2) \o "\n"
    \o "\t\t\tAND day = " \o zfill(IntStr(start_timestamp.day), 2) \o "\n"
    \o "\t\t\tAND hour >= " \o zfill(IntStr(start_timestamp.hour), 2) \o ")\n"
    \o "\t\tOR (year = " \o IntStr(end_timestamp.year) \o "\n"
    \o "\t\t\tAND month = " \o zfill(IntStr(end_timestamp.month), 2) \o "\n"
    \o "\t\t\tAND day = " \o zfill(IntStr(end_timestamp.day), 2) \o "\n"
    \o "\t\t\tAND hour <= " \o zfill(IntStr(end_timestamp.hour), 2) \o ")\n"

build_athena_query_part_two_for_partition(start_timestamp, end_timestamp) ==
    IF date(start_timestamp) = date(end_timestamp)
    THEN SameDayFilter(start_timestamp, end_timestamp)
    ELSE IF start_timestamp.year = end_timestamp.year
    THEN IF start_timestamp.month = end_timestamp.month
         THEN SameMonthFilter(start_timestamp, end_timestamp)
         ELSE SameYearFilter(start_timestamp, end_timestamp)
    ELSE CrossYearFilter(start_timestamp, end_timestamp)

(***************************************************************************)
(* build_athena_query_part_three_for_app_access_logs                       *)
(***************************************************************************)
\* a faulty variant: the threshold is divided by a schedule of 5 minutes
part_three_for_app_access_logs_per_minute(error_threshold, start_timestamp) ==
    "\n\t)\n"
    \o "\tSELECT\n"
    \o "\t\tclient_ip,\n"
    \o "\t\tCOUNT(*) as counter\n"
    \o "\tFROM\n"
    \o "\t\tlogs_with_concat_data\n"
    \o "\tWHERE\n"
    \o "\t\tdatetime > TIMESTAMP "
    \o "'" \o SubSeq(DateTimeStr(start_timestamp), 1, 19) \o "'"
    \o "\n\t\tAND status = ANY (VALUES '400', '401', '403', '404', '405')\n"
    \o "\tGROUP BY\n"
    \o "\t\tclient_ip,\n"
    \o "\t\tdate_trunc('minute', datetime)\n"
    \o "\tHAVING\n"
    \o "\t\tCOUNT(*) >= "
    \o IntStr(error_threshold \div 5)
    \o "\n) GROUP BY\n"
    \o "\tclient_ip\n"
    \o "ORDER BY\n"
    \o "\tmax_counter_per_min DESC\n"
    \o "LIMIT 10000;"

build_athena_query_part_three_for_app_access_logs(error_threshold, start_timestamp) ==
    "\n\t)\n"
    \o "\tSELECT\n"
    \o "\t\tclient_ip,\n"
    \o "\t\tCOUNT(*) as counter\n"
    \o "\tFROM\n"
    \o "\t\tlogs_with_concat_data\n"
    \o "\tWHERE\n"
    \o "\t\tdatetime > TIMESTAMP "
    \o "'" \o SubSeq(DateTimeStr(start_timestamp), 1, 19) \o "'"
    \o "\n\t\tAND status = ANY (VALUES '400', '401', '403', '404', '405')\n"
    \o "\tGROUP BY\n"
    \o "\t\tclient_ip,\n"
    \o "\t\tdate_trunc('minute', datetime)\n"
    \o "\tHAVING\n"
    \o "\t\tCOUNT(*) >= "
    \o IntStr(error_threshold)
    \o "\n) GROUP BY\n"
    \o "\tclient_ip\n"
    \o "ORDER BY\n"
    \o "\tmax_counter_per_min DESC\n"
    \o "LIMIT 10000;"

(***************************************************************************)
(* build_athena_query_for_app_access_logs                                  *)
(***************************************************************************)
\* the three parts, from the start of the window
AppQueryParts(log_type, database_name, table_name, start_timestamp, end_timestamp, error_threshold) ==
    (IF log_type = "CLOUDFRONT"
     THEN build_athena_query_part_one_for_cloudfront_logs(database_name,
                                                          table_name)
     ELSE build_athena_query_part_one_for_alb_logs(database_name, table_name))
    \o build_athena_query_part_two_for_partition(start_timestamp,
                                                 end_timestamp)
    \o build_athena_query_part_three_for_app_access_logs(error_threshold,
                                                         start_timestamp)

build_athena_query_for_app_access_logs(log_type, database_name, table_name, end_timestamp, waf_block_period, error_threshold) ==
    AppQueryParts(log_type, database_name, table_name,
                  MinusMinutes(end_timestamp, waf_block_period),
                  end_timestamp, error_threshold)

(***************************************************************************)
(* build_select_group_by_columns_for_waf_logs                              *)
(***************************************************************************)
\* a faulty variant: the mode is compared as written, not in lower case
select_group_by_columns_case_sensitive(group_by, request_threshold_by_country) ==
    IF \/ group_by = "country"
       \/ (group_by = "none" /\ Len(request_threshold_by_country) > 0)
    THEN <<"httprequest.country as country,", ", country">>
    ELSE IF group_by = "uri"
    THEN <<IF Len(request_threshold_by_country) = 0
           THEN "httprequest.uri as uri,"
           ELSE "httprequest.country as country, httprequest.uri as uri,",
           IF Len(request_threshold_by_country) = 0
           THEN ", uri"
           ELSE ", country, uri">>
    ELSE IF group_by = "country and uri"
    THEN <<"httprequest.country as country, httprequest.uri as uri,",
           ", country, uri">>
    ELSE <<"", "">>

build_select_group_by_columns_for_waf_logs(group_by, request_threshold_by_country) ==
    IF \/ lower(group_by) = "country"
       \/ (lower(group_by) = "none" /\ Len(request_threshold_by_country) > 0)
    THEN <<"httprequest.country as country,", ", country">>
    ELSE IF lower(group_by) = "uri"
    THEN <<IF Len(request_threshold_by_country) = 0
           THEN "httprequest.uri as uri,"
           ELSE "httprequest.country as country, httprequest.uri as uri,",
           IF Len(request_threshold_by_country) = 0
           THEN ", uri"
           ELSE ", country, uri">>
    ELSE IF lower(group_by) = "country and uri"
    THEN <<"httprequest.country as country, httprequest.uri as uri,",
           ", country, uri">>
    ELSE <<"", "">>

(***************************************************************************)
(* build_athena_query_part_one_for_waf_logs                                *)
(***************************************************************************)
\* a faulty variant: the outer SELECT list names client_ip only
part_one_for_waf_logs_plain_select(database_name, table_name, additional_columns_group_one, additional_columns_group_two) ==
    "SELECT\n"
    \o "\tclient_ip,\n"
    \o "\tMAX_BY(counter, counter) as max_counter_per_min\n"
    \o " FROM (\n"
    \o "\tWITH logs_with_concat_data AS (\n"
    \o "\t\tSELECT\n"
    \o "\t\t\thttprequest.clientip as client_ip,"
    \o additional_columns_group_one \o "\n"
    \o "\t\t\tfrom_unixtime(timestamp/1000) as datetime\n"
    \o "\t\tFROM\n"
    \o "\t\t\t"
    \o database_name \o "." \o table_name

build_athena_query_part_one_for_waf_logs(database_name, table_name, additional_columns_group_one, additional_columns_group_two) ==
    "SELECT\n"
    \o "\tclient_ip" \o additional_columns_group_two \o ",\n"
    \o "\tMAX_BY(counter, counter) as max_counter_per_min\n"
    \o " FROM (\n"
    \o "\tWITH logs_with_concat_data AS (\n"
    \o "\t\tSELECT\n"
    \o "\t\t\thttprequest.clientip as client_ip,"
    \o additional_columns_group_one \o "\n"
    \o "\t\t\tfrom_unixtime(timestamp/1000) as datetime\n"
    \o "\t\tFROM\n"
    \o "\t\t\t"
    \o database_name \o "." \o table_name

(***************************************************************************)
(* json.loads, for the texts the thresholds argument is drawn from: an     *)
(* object whose keys are strings without escapes and whose values are      *)
(* integers, with optional white space between the tokens.  The result is  *)
(* the dict as the sequence of its <<key, value>> items in insertion       *)
(* order, or a JSONDecodeError.                                            *)
(***************************************************************************)
JsonWhitespace == {" ", "\t", "\n", "\r"}
Digits == {"0", "1", "2", "3", "4", "5", "6", "7", "8", "9"}

DigitValue(c) == CHOOSE k \in 0..9 : CharAt("0123456789", k + 1) = c

\* the first position at or after i that holds no white space
RECURSIVE SkipWhitespace(_, _)
SkipWhitespace(s, i) ==
    IF i <= Len(s) /\ CharAt(s, i) \in JsonWhitespace
    THEN SkipWhitespace(s, i + 1)
    ELSE i

\* the position of the first '"' at or after i, Len(s) + 1 when none
RECURSIVE ClosingQuote(_, _)
ClosingQuote(s, i) ==
    IF i > Len(s) \/ CharAt(s, i) = "\""
    THEN i
    ELSE ClosingQuote(s, i + 1)

\* a string starting at position i: its text and the position after it
ScanString(s, i) ==
    IF i > Len(s) \/ CharAt(s, i) # "\""
    THEN [ok |-> FALSE, value |-> "", next |-> i]
    ELSE LET j == ClosingQuote(s, i + 1)
         IN  IF j > Len(s)
             THEN [ok |-> FALSE, value |-> "", next |-> i]
             ELSE [ok |-> TRUE, value |-> SubSeq(s, i + 1, j - 1),
                   next |-> j + 1]

\* the digits of an integer part from position i on, after the first digit
RECURSIVE ScanDigits(_, _, _)
ScanDigits(s, i, acc) ==
    IF i <= Len(s) /\ CharAt(s, i) \in Digits
    THEN ScanDigits(s, i + 1, acc * 10 + DigitValue(CharAt(s, i)))
    ELSE [ok |-> TRUE, value |-> acc, next |-> i]

\* an integer starting at position i: -?(0|[1-9][0-9]*)
ScanNumber(s, i) ==
    LET neg == i <= Len(s) /\ CharAt(s, i) = "-"
        j == IF neg THEN i + 1 ELSE i
    IN  IF j > Len(s) \/ CharAt(s, j) \notin Digits
        THEN [ok |-> FALSE, value |-> 0, next |-> i]
        ELSE LET n == IF CharAt(s, j) = "0"
                      THEN [ok |-> TRUE, value |-> 0, next |-> j + 1]
                      ELSE ScanDigits(s, j + 1, DigitValue(CharAt(s, j)))
             IN  [n EXCEPT !.value = IF neg THEN -n.value ELSE n.value]

\* dict[key] = value: a key already present keeps its place
RECURSIVE DictSet(_, _, _)
DictSet(items, key, value) ==
    IF Len(items) = 0 THEN <<<<key, value>>>>
    ELSE IF Head(items)[1] = key THEN <<<<key, value>>>> \o Tail(items)
    ELSE <<Head(items)>> \o DictSet(Tail(items), key, value)

\* the members of an object from position i on, i at the start of a key
RECURSIVE ScanMembers(_, _, _)
ScanMembers(s, i, items) ==
    LET key == ScanString(s, i)
        colon == SkipWhitespace(s, key.next)
        val == ScanNumber(s, SkipWhitespace(s, colon + 1))
        sep == SkipWhitespace(s, val.next)
    IN  IF ~key.ok \/ colon > Len(s) \/ CharAt(s, colon) # ":" \/ ~val.ok
           \/ sep > Len(s)
        THEN [ok |-> FALSE, value |-> <<>>, next |-> i]
        ELSE IF CharAt(s, sep) = "}"
        THEN [ok |-> TRUE, value |-> DictSet(items, key.value, val.value),
              next |-> sep + 1]
        ELSE IF CharAt(s, sep) = ","
        THEN ScanMembers(s, SkipWhitespace(s, sep + 1),
                         DictSet(items, key.value, val.value))
        ELSE [ok |-> FALSE, value |-> <<>>, next |-> i]

ScanObject(s, i) ==
    IF i > Len(s) \/ CharAt(s, i) # "{"
    THEN [ok |-> FALSE, value |-> <<>>, next |-> i]
    ELSE LET j == SkipWhitespace(s, i + 1)
         IN  IF j <= Len(s) /\ CharAt(s, j) = "}"
             THEN [ok |-> TRUE, value |-> <<>>, next |-> j + 1]
             ELSE ScanMembers(s, j, <<>>)

json_loads(s) ==
    LET obj == ScanObject(s, SkipWhitespace(s, 1))
    IN  IF obj.ok /\ SkipWhitespace(s, obj.next) > Len(s)
        THEN Returns(obj.value)
        ELSE Raises("JSONDecodeError")

(***************************************************************************)
(* str(a / b) for integers a >= 0 and b > 0 whose quotient has a finite    *)
(* decimal expansion (b a product of 2s and 5s): the float's repr is that  *)
(* expansion, with '.0' for a whole number.                                *)
(***************************************************************************)
RECURSIVE FractionDigits(_, _)
FractionDigits(rem, b) ==
    IF rem = 0 THEN ""
    ELSE NatStr((rem * 10) \div b) \o FractionDigits((rem * 10) % b, b)

FloatStr(a, b) ==
    NatStr(a \div b) \o "."
    \o (IF a % b = 0 THEN "0" ELSE FractionDigits(a % b, b))

(***************************************************************************)
(* build_having_clause_for_waf_logs                                        *)
(***************************************************************************)
\* the loop over the dict: <<having_clause_string, not_in_country_string>>
RECURSIVE CountryClauses(_, _)
CountryClauses(items, athena_query_run_schedule) ==
    IF Len(items) = 0 THEN <<"", "">>
    ELSE LET country == Head(items)[1]
             request_threshold_for_country == Head(items)[2]
             rest == CountryClauses(Tail(items), athena_query_run_schedule)
         IN  <<"\t\t(COUNT(*) >= "
               \o FloatStr(request_threshold_for_country,
                           athena_query_run_schedule)
               \o " AND country = '" \o country \o "') OR \n" \o rest[1],
               "'" \o country \o "'," \o rest[2]>>

\* a faulty variant: the last comma of the NOT IN list is kept
HavingClauseKeepingLastComma(request_threshold_calculated, clauses) ==
    clauses[1]
    \o "\t\t(COUNT(*) >= " \o request_threshold_calculated
    \o " AND country NOT IN ("
    \o clauses[2] \o "))"

\* after the loop: the NOT IN list loses its last comma and is closed, and
\* the clause for the other countries is appended
HavingClauseByCountry(request_threshold_calculated, clauses) ==
    clauses[1]
    \o "\t\t(COUNT(*) >= " \o request_threshold_calculated
    \o " AND country NOT IN ("
    \o SubSeq(clauses[2], 1, Len(clauses[2]) - 1) \o "))"

\* a faulty variant: the thresholds text is parsed before the division
having_clause_parsing_first(default_request_threshold, request_threshold_by_country, athena_query_run_schedule) ==
    IF Len(request_threshold_by_country) > 0
    THEN Propagate(json_loads(request_threshold_by_country),
             LAMBDA request_threshold_by_country_json :
                 IF athena_query_run_schedule = 0
                 THEN Raises("ZeroDivisionError")
                 ELSE Returns(HavingClauseByCountry(
                          FloatStr(default_request_threshold,
                                   athena_query_run_schedule),
                          CountryClauses(request_threshold_by_country_json,
                                         athena_query_run_schedule))))
    ELSE IF athena_query_run_schedule = 0
    THEN Raises("ZeroDivisionError")
    ELSE Returns("\t\tCOUNT(*) >= "
                 \o FloatStr(default_request_threshold,
                             athena_query_run_schedule))

build_having_clause_for_waf_logs(default_request_threshold, request_threshold_by_country, athena_query_run_schedule) ==
    IF athena_query_run_schedule = 0
    THEN Raises("ZeroDivisionError")
    ELSE IF Len(request_threshold_by_country) > 0
    THEN Propagate(json_loads(request_threshold_by_country),
             LAMBDA request_threshold_by_country_json :
                 Returns(HavingClauseByCountry(
                     FloatStr(default_request_threshold,
                              athena_query_run_schedule),
                     CountryClauses(request_threshold_by_country_json,
                                    athena_query_run_schedule))))
    ELSE Returns("\t\tCOUNT(*) >= "
                 \o FloatStr(default_request_threshold,
                             athena_query_run_schedule))

(***************************************************************************)
(* build_athena_query_part_three_for_waf_logs                              *)
(***************************************************************************)
build_athena_query_part_three_for_waf_logs(default_request_threshold, request_threshold_by_country, athena_query_run_schedule, additional_columns_group_two, start_timestamp) ==
    Propagate(
        build_having_clause_for_waf_logs(default_request_threshold,
                                         request_threshold_by_country,
                                         athena_query_run_schedule),
        LAMBDA having_clause :
            Returns(
                "\n\t)\n"
                \o "\tSELECT\n"
                \o "\t\tclient_ip" \o additional_columns_group_two \o ",\n"
                \o "\t\tCOUNT(*) as counter\n"
                \o "\tFROM\n"
                \o "\t\tlogs_with_concat_data\n"
                \o "\tWHERE\n"
                \o "\t\tdatetime > TIMESTAMP "
                \o "'" \o SubSeq(DateTimeStr(start_timestamp), 1, 19) \o "'"
                \o "\n\tGROUP BY\n"
                \o "\t\tclient_ip" \o additional_columns_group_two \o ",\n"
                \o "\t\tdate_trunc('minute', datetime)\n"
                \o "\tHAVING\n"
                \o having_clause
                \o "\n) GROUP BY\n"
                \o "\tclient_ip" \o additional_columns_group_two \o "\n"
                \o "ORDER BY\n"
                \o "\tmax_counter_per_min DESC\n"
                \o "LIMIT 10000;"))

(***************************************************************************)
(* build_athena_query_for_waf_logs                                         *)
(***************************************************************************)
\* the three parts, from the start of the window and the grouping columns
WafQueryParts(database_name, table_name, start_timestamp, end_timestamp, request_threshold, request_threshold_by_country, athena_query_run_schedule, additional_columns) ==
    Propagate(
        build_athena_query_part_three_for_waf_logs(
            request_threshold, request_threshold_by_country,
            athena_query_run_schedule, additional_columns[2],
            start_timestamp),
        LAMBDA part_three :
            Returns(
                build_athena_query_part_one_for_waf_logs(
                    database_name, table_name,
                    additional_columns[1], additional_columns[2])
                \o build_athena_query_part_two_for_partition(
                       start_timestamp, end_timestamp)
                \o part_three))

build_athena_query_for_waf_logs(database_name, table_name, end_timestamp, waf_block_period, request_threshold, request_threshold_by_country, group_by, athena_query_run_schedule) ==
    WafQueryParts(
        database_name, table_name,
        MinusMinutes(end_timestamp, waf_block_period), end_timestamp,
        request_threshold, request_threshold_by_country,
        athena_query_run_schedule,
        build_select_group_by_columns_for_waf_logs(
            group_by, request_threshold_by_country))

(***************************************************************************)
(* The arguments the calls are drawn from.                                 *)
(***************************************************************************)
LogTypes == {"CLOUDFRONT", "ALB"}
DatabaseNames == {"db", "waf_db"}
TableNames == {"tbl", "access_logs"}
\* end of the scanned window
EndTimestamps ==
    {DateTime(2024, 1, 15, 10, 0, 0, 0),
     DateTime(2024, 1, 15, 0, 2, 0, 0),
     DateTime(2024, 3, 1, 0, 30, 0, 0),
     DateTime(2024, 1, 1, 0, 1, 30, 0),
     DateTime(2023, 3, 1, 1, 0, 7, 250000),
     DateTime(2024, 12, 31, 23, 59, 59, 0)}

\* waf_block_period, minutes
BlockPeriods == {5, 60, 240, 1440}

\* <<database_name, table_name, end_timestamp, waf_block_period>> of the
\* WAF calls: a window inside a day, over midnight, over the end of a month
\* and over the end of a year
WafTargets ==
    {<<"db", "tbl", DateTime(2024, 1, 15, 10, 0, 0, 0), 5>>,
     <<"waf_db", "access_logs", DateTime(2024, 1, 15, 0, 2, 0, 0), 240>>,
     <<"db", "tbl", DateTime(2024, 3, 1, 0, 30, 0, 250000), 60>>,
     <<"waf_db", "access_logs", DateTime(2024, 1, 1, 0, 1, 30, 0), 5>>}

\* start and end of a direct call of the partition filter
Years == {2023, 2024}
Months == {1, 2, 12}
TimesOfDay == {<<0, 0>>, <<9, 0>>, <<9, 30>>, <<23, 59>>}

Timestamps ==
    {DateTime(y, m, d, t[1], t[2], 0, 0) :
        y \in Years, m \in Months, d \in {1, 15, 28, 29, 31},
        t \in TimesOfDay}

ValidTimestamps ==
    {ts \in Timestamps : ts.day <= DaysInMonth(ts.year, ts.month)}

ErrorThresholds == {50, 100}
RequestThresholds == {100, 7}

\* athena_query_run_schedule, minutes
Schedules == {0, 1, 2, 5}

GroupBys ==
    {"none", "None", "NONE", "country", "Country", "uri", "URI",
     "country and uri", "Country and URI", "", "ip", "country,uri"}

\* per-country thresholds: the items of a mapping, keys distinct
Countries == {"US", "CN", "BR"}
CountryRates == {50, 3}

RECURSIVE ItemSeqs(_)
ItemSeqs(n) ==
    IF n = 0 THEN {<<>>}
    ELSE {m \o <<<<c, r>>>> :
            m \in {x \in ItemSeqs(n - 1) : Len(x) = n - 1},
            c \in Countries, r \in CountryRates}
         \cup ItemSeqs(n - 1)

Mappings ==
    {m \in ItemSeqs(MaxCountries) :
        \A i, j \in 1..Len(m) : i # j => m[i][1] # m[j][1]}

\* the JSON text of a mapping, as json.dumps writes it
RECURSIVE DumpItems(_)
DumpItems(m) ==
    IF Len(m) = 0 THEN ""
    ELSE "\"" \o Head(m)[1] \o "\": " \o IntStr(Head(m)[2])
         \o (IF Len(m) = 1 THEN "" ELSE ", " \o DumpItems(Tail(m)))

JsonText(m) == "{" \o DumpItems(m) \o "}"

\* texts that json.loads rejects
MalformedTexts ==
    {"{", "{\"US\":}", "US=10", "{\"US\": 10,}", "{\"US\" 10}",
     "{\"US\": 10} x", "{\"US: 10}", "{\"US\": 010}"}

\* further texts of objects: compact, spaced, a repeated key
OtherTexts ==
    {"{\"US\":10}", " { \"US\" : 10 ,\n\"CN\":4 } ", "{ }",
     "{\"US\": 10, \"CN\": 4, \"US\": 50}"}

ThresholdTexts ==
    {""} \cup {JsonText(m) : m \in Mappings} \cup MalformedTexts
    \cup OtherTexts

(***************************************************************************)
(* The state: no call made yet; then the call made, its arguments and its  *)
(* outcome.  Every call is an independent computation.                     *)
(***************************************************************************)
Init ==
    /\ fn = "none"
    /\ args = <<>>
    /\ ret = <<>>

CallAppAccessLogs ==
    /\ fn = "none"
    /\ \E log_type \in LogTypes, database_name \in DatabaseNames,
          table_name \in TableNames, end_timestamp \in EndTimestamps,
          waf_block_period \in BlockPeriods,
          error_threshold \in ErrorThresholds :
            /\ args' = [log_type |-> log_type,
                        database_name |-> database_name,
                        table_name |-> table_name,
                        end_timestamp |-> end_timestamp,
                        waf_block_period |-> waf_block_period,
                        error_threshold |-> error_threshold]
            /\ ret' = Returns(build_athena_query_for_app_access_logs(
                          log_type, database_name, table_name, end_timestamp,
                          waf_block_period, error_threshold))
    /\ fn' = "build_athena_query_for_app_access_logs"

CallWafLogs ==
    /\ fn = "none"
    /\ \E target \in WafTargets,
          request_threshold \in {100},
          request_threshold_by_country \in ThresholdTexts,
          group_by \in GroupBys,
          athena_query_run_schedule \in Schedules :
            /\ args' = [database_name |-> target[1],
                        table_name |-> target[2],
                        end_timestamp |-> target[3],
                        waf_block_period |-> target[4],
                        request_threshold |-> request_threshold,
                        request_threshold_by_country |->
                            request_threshold_by_country,
                        group_by |-> group_by,
                        athena_query_run_schedule |->
                            athena_query_run_schedule]
            /\ ret' = build_athena_query_for_waf_logs(
                          target[1], target[2], target[3], target[4],
                          request_threshold, request_threshold_by_country,
                          group_by, athena_query_run_schedule)
    /\ fn' = "build_athena_query_for_waf_logs"

CallPartTwo ==
    /\ fn = "none"
    /\ \E start_timestamp \in ValidTimestamps,
          end_timestamp \in ValidTimestamps :
            /\ Before(start_timestamp, end_timestamp)
            /\ args' = [start_timestamp |-> start_timestamp,
                        end_timestamp |-> end_timestamp]
            /\ ret' = Returns(build_athena_query_part_two_for_partition(
                          start_timestamp, end_timestamp))
    /\ fn' = "build_athena_query_part_two_for_partition"

CallSelectGroupBy ==
    /\ fn = "none"
    /\ \E group_by \in GroupBys,
          request_threshold_by_country \in ThresholdTexts :
            /\ args' = [group_by |-> group_by,
                        request_threshold_by_country |->
                            request_threshold_by_country]
            /\ ret' = Returns(build_select_group_by_columns_for_waf_logs(
                          group_by, request_threshold_by_country))
    /\ fn' = "build_select_group_by_columns_for_waf_logs"

CallHavingClause ==
    /\ fn = "none"
    /\ \E default_request_threshold \in RequestThresholds,
          request_threshold_by_country \in ThresholdTexts,
          athena_query_run_schedule \in Schedules :
            /\ args' = [default_request_threshold |->
                            default_request_threshold,
                        request_threshold_by_country |->
                            request_threshold_by_country,
                        athena_query_run_schedule |->
                            athena_query_run_schedule]
            /\ ret' = build_having_clause_for_waf_logs(
                          default_request_threshold,
                          request_threshold_by_country,
                          athena_query_run_schedule)
    /\ fn' = "build_having_clause_for_waf_logs"

Next ==
    \/ CallAppAccessLogs
    \/ CallWafLogs
    \/ CallPartTwo
    \/ CallSelectGroupBy
    \/ CallHavingClause

Spec == Init /\ [][Next]_vars

(***************************************************************************)
(* Text predicates used to state the properties.                           *)
(***************************************************************************)
StartsWith(s, p) == Len(p) <= Len(s) /\ SubSeq(s, 1, Len(p)) = p

EndsWith(s, p) ==
    Len(p) <= Len(s) /\ SubSeq(s, Len(s) - Len(p) + 1, Len(s)) = p

\* the text of s after its first n characters
After(s, n) == SubSeq(s, n + 1, Len(s))

\* the positions at which p occurs in s
Occurrences(s, p) ==
    {i \in 1..(Len(s) - Len(p) + 1) : SubSeq(s, i, i + Len(p) - 1) = p}

Count(s, p) == Cardinality(Occurrences(s, p))

Contains(s, p) == Occurrences(s, p) # {}

\* a number written with two digits
TwoDigits(n) == IF n < 10 THEN "0" \o ToString(n) ELSE ToString(n)

\* the minute of the day at which the window of a call starts, negative
\* when the window starts on an earlier day
WindowStartMinute == args.end_timestamp.hour * 60 + args.end_timestamp.minute
                     - args.waf_block_period

(***************************************************************************)
(* C1: for log_type 'CLOUDFRONT' and a window that starts on the day it    *)
(* ends, build_athena_query_for_app_access_logs returns the CloudFront     *)
(* source select ending in 'FROM\n\t\t\t<database>.<table>', then the      *)
(* same-day partition filter for the start and end hours, then a third     *)
(* part that filters status to 400, 401, 403, 404, 405, has the HAVING     *)
(* clause comparing the row count, >=, with <error_threshold> as given,    *)
(* orders by max_counter_per_min DESC and ends with 'LIMIT 10000;'.        *)
(***************************************************************************)
C1CloudFrontSelect ==
    "SELECT\n\tclient_ip,\n\tMAX_BY(counter, counter) as max_counter_per_min\n"
    \o " FROM (\n\tWITH logs_with_concat_data AS (\n\t\tSELECT\n"
    \o "\t\t\trequestip as client_ip,\n"
    \o "\t\t\tcast(status as varchar) as status,\n"
    \o "\t\t\tparse_datetime( concat( concat( format_datetime(date, 'yyyy-MM-dd'), '-' ), time ), 'yyyy-MM-dd-HH:mm:ss') AS datetime\n"
    \o "\t\tFROM\n\t\t\t" \o args.database_name \o "." \o args.table_name

C1SameDayFilter ==
    "\n\t\tWHERE year = " \o ToString(args.end_timestamp.year)
    \o "\n\t\tAND month = " \o TwoDigits(args.end_timestamp.month)
    \o "\n\t\tAND day = " \o TwoDigits(args.end_timestamp.day)
    \o "\n\t\tAND hour between " \o TwoDigits(WindowStartMinute \div 60)
    \o " and " \o TwoDigits(args.end_timestamp.hour)

C1Case ==
    /\ fn = "build_athena_query_for_app_access_logs"
    /\ args.log_type = "CLOUDFRONT"
    /\ args.waf_block_period > 0
    /\ WindowStartMinute >= 0

C1ThirdPart == After(ret.value, Len(C1CloudFrontSelect \o C1SameDayFilter))

C1_CloudFrontSameDayQuery ==
    C1Case =>
        /\ ret.exc = "none"
        /\ StartsWith(ret.value, C1CloudFrontSelect \o C1SameDayFilter)
        /\ Count(C1ThirdPart, "status = ANY (VALUES ") = 1
        /\ Contains(C1ThirdPart,
               "AND status = ANY (VALUES '400', '401', '403', '404', '405')\n")
        /\ Count(C1ThirdPart, "HAVING") = 1
        /\ \E i \in Occurrences(C1ThirdPart,
                       "\tHAVING\n\t\tCOUNT(*) >= "
                       \o ToString(args.error_threshold) \o "\n") :
             \E j \in Occurrences(C1ThirdPart,
                          "ORDER BY\n\tmax_counter_per_min DESC\n") : i < j
        /\ EndsWith(C1ThirdPart, "max_counter_per_min DESC\nLIMIT 10000;")

\* the spec's example: end 2024-01-15T10:00:00, period 5, threshold 100
C1_Witness ==
    /\ C1Case
    /\ args.database_name = "db" /\ args.table_name = "tbl"
    /\ args.end_timestamp = DateTime(2024, 1, 15, 10, 0, 0, 0)
    /\ args.waf_block_period = 5 /\ args.error_threshold = 100
    /\ Contains(ret.value, "FROM\n\t\t\tdb.tbl")
    /\ Contains(ret.value, "hour between 09 and 10")
    /\ Contains(ret.value, "COUNT(*) >= 100\n")

(***************************************************************************)
(* The partition filter of a direct call.                                  *)
(***************************************************************************)
PartTwoCall == fn = "build_athena_query_part_two_for_partition"

SameDay == date(args.start_timestamp) = date(args.end_timestamp)

(***************************************************************************)
(* C2: for start < end on the same calendar day, the partition filter has  *)
(* exactly one year/month/day triplet, with the start's year and its month *)
(* and day zero-padded to width 2, one hour range 'hour between <start     *)
(* hour> and <end hour>', both zero-padded to width 2, and no OR.          *)
(***************************************************************************)
C2_SameDayTriplet ==
    (PartTwoCall /\ SameDay) =>
        /\ Count(ret.value, "year = ") = 1
        /\ Count(ret.value, "month = ") = 1
        /\ Count(ret.value, "day = ") = 1
        /\ Count(ret.value, "hour") = 1
        /\ Count(ret.value, "OR") = 0
        /\ Contains(ret.value,
               "year = " \o ToString(args.start_timestamp.year) \o "\n")
        /\ Contains(ret.value,
               "AND month = " \o TwoDigits(args.start_timestamp.month) \o "\n")
        /\ Contains(ret.value,
               "AND day = " \o TwoDigits(args.start_timestamp.day) \o "\n")
        /\ EndsWith(ret.value,
               "AND hour between " \o TwoDigits(args.start_timestamp.hour)
               \o " and " \o TwoDigits(args.end_timestamp.hour))

\* a same-day call whose month, day and start hour all need padding
C2_Witness ==
    /\ PartTwoCall /\ SameDay
    /\ args.start_timestamp.month < 10 /\ args.start_timestamp.day < 10
    /\ args.start_timestamp.hour = 9 /\ args.end_timestamp.hour = 23
    /\ EndsWith(ret.value, "hour between 09 and 23")

(***************************************************************************)
(* C3: for start < end in the same year on different calendar days, the    *)
(* filter has a single 'year = <year>' and exactly two day-qualified       *)
(* disjuncts joined by OR, (day = start day AND hour >= start hour) and    *)
(* (day = end day AND hour <= end hour); with equal months the month is    *)
(* stated once, outside the disjunction; with different months each        *)
(* disjunct is also qualified by its own side's month.                     *)
(***************************************************************************)
C3Case ==
    /\ PartTwoCall /\ ~SameDay
    /\ args.start_timestamp.year = args.end_timestamp.year

C3SameMonth == args.start_timestamp.month = args.end_timestamp.month

C3StartDisjunct ==
    (IF C3SameMonth THEN "("
     ELSE "(month = " \o TwoDigits(args.start_timestamp.month) \o " AND ")
    \o "day = " \o TwoDigits(args.start_timestamp.day)
    \o " AND hour >= " \o TwoDigits(args.start_timestamp.hour) \o ")"

C3EndDisjunct ==
    (IF C3SameMonth THEN "("
     ELSE "(month = " \o TwoDigits(args.end_timestamp.month) \o " AND ")
    \o "day = " \o TwoDigits(args.end_timestamp.day)
    \o " AND hour <= " \o TwoDigits(args.end_timestamp.hour) \o ")"

C3_CrossDayDisjuncts ==
    C3Case =>
        /\ Count(ret.value, "year = ") = 1
        /\ StartsWith(ret.value,
               "\n\t\tWHERE year = " \o ToString(args.start_timestamp.year)
               \o "\n")
        /\ Count(ret.value, "day = ") = 2
        /\ Count(ret.value, "hour") = 2
        /\ Count(ret.value, "OR") = 1
        /\ Count(ret.value, "(") = 3 /\ Count(ret.value, ")") = 3
        /\ Contains(ret.value,
               "AND (\n\t\t\t" \o C3StartDisjunct \o "\n\t\t\tOR "
               \o C3EndDisjunct \o "\n\t\t)")
        /\ IF C3SameMonth
           THEN /\ Count(ret.value, "month = ") = 1
                /\ Contains(ret.value,
                       "year = " \o ToString(args.start_timestamp.year)
                       \o "\n\t\tAND month = "
                       \o TwoDigits(args.start_timestamp.month)
                       \o "\n\t\tAND (\n")
           ELSE /\ Count(ret.value, "month = ") = 2
                /\ Contains(ret.value,
                       "year = " \o ToString(args.start_timestamp.year)
                       \o "\n\t\tAND (\n")

\* both sub-cases: the same month, and two months with the same day number
C3_Witness ==
    /\ C3Case /\ ~C3SameMonth
    /\ args.start_timestamp.day = args.end_timestamp.day
    /\ Contains(ret.value, "(month = 01 AND day = 15 AND hour >= 09)")
    /\ Contains(ret.value, "OR (month = 12 AND day = 15 AND hour <= 00)")

C3_WitnessSameMonth ==
    /\ C3Case /\ C3SameMonth
    /\ Contains(ret.value, "AND month = 02\n")
    /\ Contains(ret.value, "(day = 01 AND hour >= 23)")

(***************************************************************************)
(* C4: for start < end in different years, the filter is exactly two       *)
(* bracketed disjuncts joined by OR, the first qualified by the start's    *)
(* year, month, day and 'hour >= start hour', the second by the end's year,*)
(* month, day and 'hour <= end hour'; the brackets share no term.          *)
(***************************************************************************)
C4Bracket(ts, cmp) ==
    "(year = " \o ToString(ts.year)
    \o "\n\t\t\tAND month = " \o TwoDigits(ts.month)
    \o "\n\t\t\tAND day = " \o TwoDigits(ts.day)
    \o "\n\t\t\tAND hour " \o cmp \o " " \o TwoDigits(ts.hour) \o ")"

C4_CrossYearBrackets ==
    (PartTwoCall /\ args.start_timestamp.year # args.end_timestamp.year) =>
        ret.value = "\n\t\tWHERE " \o C4Bracket(args.start_timestamp, ">=")
                    \o "\n\t\tOR " \o C4Bracket(args.end_timestamp, "<=")
                    \o "\n"

\* a window over the new year: 2023-12-31 23h to 2024-01-01 00h
C4_Witness ==
    /\ PartTwoCall
    /\ date(args.start_timestamp) = <<2023, 12, 31>>
    /\ date(args.end_timestamp) = <<2024, 1, 1>>
    /\ Count(ret.value, "year = ") = 2
    /\ Contains(ret.value, "AND hour >= 23)")
    /\ Contains(ret.value, "AND hour <= 00)")

(***************************************************************************)
(* The HAVING clause of a direct call.                                     *)
(***************************************************************************)
HavingCall == fn = "build_having_clause_for_waf_logs"

\* a / b as Python writes the float, for the schedules 1, 2 and 5: the
\* quotient has at most one decimal
QuotientText(a, b) ==
    ToString(a \div b) \o "." \o ToString(((a % b) * 10) \div b)

\* thresholds texts with the mapping each one denotes
TextMappings ==
    {<<JsonText(m), m>> : m \in Mappings}
    \cup {<<"{\"US\":10}", <<<<"US", 10>>>> >>,
          <<" { \"US\" : 10 ,\n\"CN\":4 } ", <<<<"US", 10>>, <<"CN", 4>>>> >>,
          <<"{\"US\": 10, \"CN\": 4, \"US\": 50}",
            <<<<"US", 50>>, <<"CN", 4>>>> >>}

(***************************************************************************)
(* C5: for a non-empty per-country mapping, any default rate and a         *)
(* non-zero schedule, build_having_clause_for_waf_logs returns one clause  *)
(* (count >= country rate / schedule AND country = '<country>') per listed *)
(* country, in the mapping's order, each followed by OR, and then exactly  *)
(* one fallback clause (count >= default rate / schedule AND country NOT   *)
(* IN (<the listed countries, quoted, comma-separated, same order>)); the  *)
(* NOT IN list holds every listed country and no other.                    *)
(***************************************************************************)
C5CountryClause(item, schedule) ==
    "(COUNT(*) >= " \o QuotientText(item[2], schedule)
    \o " AND country = '" \o item[1] \o "')"

\* the clauses of the countries m[i], m[i+1], ..., each followed by OR
RECURSIVE C5Clauses(_, _, _)
C5Clauses(m, i, schedule) ==
    IF i > Len(m) THEN ""
    ELSE "\t\t" \o C5CountryClause(m[i], schedule) \o " OR \n"
         \o C5Clauses(m, i + 1, schedule)

RECURSIVE C5Quoted(_, _)
C5Quoted(m, i) ==
    IF i > Len(m) THEN ""
    ELSE "'" \o m[i][1] \o "'" \o (IF i < Len(m) THEN "," ELSE "")
         \o C5Quoted(m, i + 1)

C5Fallback(m) ==
    "\t\t(COUNT(*) >= "
    \o QuotientText(args.default_request_threshold,
                    args.athena_query_run_schedule)
    \o " AND country NOT IN (" \o C5Quoted(m, 1) \o "))"

C5Case(tm) ==
    /\ HavingCall
    /\ args.athena_query_run_schedule # 0
    /\ args.request_threshold_by_country = tm[1]
    /\ Len(tm[2]) > 0

C5_PerCountryClauses ==
    \A tm \in TextMappings :
        C5Case(tm) =>
            /\ ret.exc = "none"
            /\ ret.value
                 = C5Clauses(tm[2], 1, args.athena_query_run_schedule)
                   \o C5Fallback(tm[2])
            /\ Count(ret.value, "NOT IN") = 1
            /\ Count(ret.value, " OR ") = Len(tm[2])
            /\ \A c \in Countries :
                 \A i \in Occurrences(ret.value, "NOT IN (") :
                    Count(After(ret.value, i), "'" \o c \o "'")
                      = Cardinality({k \in 1..Len(tm[2]) : tm[2][k][1] = c})

\* the spec's shape with two countries: rates 50 and 3 over a schedule of 5
C5_Witness ==
    /\ C5Case(<<"{\"US\": 50, \"CN\": 3}", <<<<"US", 50>>, <<"CN", 3>>>> >>)
    /\ args.default_request_threshold = 100
    /\ args.athena_query_run_schedule = 5
    /\ Contains(ret.value, "(COUNT(*) >= 10.0 AND country = 'US') OR ")
    /\ Contains(ret.value, "(COUNT(*) >= 0.6 AND country = 'CN') OR ")
    /\ Contains(ret.value,
           "(COUNT(*) >= 20.0 AND country NOT IN ('US','CN'))")

(***************************************************************************)
(* C6: with empty per-country thresholds, the empty text or the JSON text  *)
(* of an empty mapping, build_having_clause_for_waf_logs returns the       *)
(* single comparison of the count with default rate / schedule and does    *)
(* not refer to the country column.                                        *)
(***************************************************************************)
C6Comparison ==
    "COUNT(*) >= " \o QuotientText(args.default_request_threshold,
                                   args.athena_query_run_schedule)

C6Case ==
    /\ HavingCall
    /\ args.athena_query_run_schedule # 0
    /\ args.request_threshold_by_country \in {"", "{}"}

C6_EmptyThresholdsDefaultClause ==
    C6Case =>
        /\ ret.exc = "none"
        /\ ret.value \in {C6Comparison, "\t\t" \o C6Comparison}
        /\ ~Contains(ret.value, "country")

(***************************************************************************)
(* The grouping columns of a direct call.                                  *)
(***************************************************************************)
SelectGroupByCall == fn = "build_select_group_by_columns_for_waf_logs"

\* the mode a group_by value spells, whatever its case
ModeOf(group_by) ==
    IF group_by \in {"none", "None", "NONE"} THEN "none"
    ELSE IF group_by \in {"country", "Country"} THEN "country"
    ELSE IF group_by \in {"uri", "URI"} THEN "uri"
    ELSE IF group_by \in {"country and uri", "Country and URI"}
    THEN "country and uri"
    ELSE "other"

\* the rule table: the extra columns of a mode
RuleTable(mode, non_empty) ==
    IF mode = "none" THEN (IF non_empty THEN <<"country">> ELSE <<>>)
    ELSE IF mode = "uri"
    THEN (IF non_empty THEN <<"country", "uri">> ELSE <<"uri">>)
    ELSE IF mode = "country" THEN <<"country">>
    ELSE IF mode = "country and uri" THEN <<"country", "uri">>
    ELSE <<>>

\* ', c' for every column c
RECURSIVE GroupByFragment(_)
GroupByFragment(cols) ==
    IF Len(cols) = 0 THEN ""
    ELSE ", " \o Head(cols) \o GroupByFragment(Tail(cols))

\* 'httprequest.c as c' for every column c, comma-separated, ending in ','
RECURSIVE SelectFragment(_)
SelectFragment(cols) ==
    IF Len(cols) = 0 THEN ""
    ELSE "httprequest." \o Head(cols) \o " as " \o Head(cols)
         \o (IF Len(cols) = 1 THEN "," ELSE ", " \o SelectFragment(Tail(cols)))

(***************************************************************************)
(* C7: build_select_group_by_columns_for_waf_logs follows the rule table   *)
(* for every mode, whatever its case, and for zero-length and non-empty    *)
(* thresholds texts; any other mode gives the empty pair.  The group-by    *)
(* fragment is the column list prefixed with ', ' and the select fragment  *)
(* names the same columns in the same order.                               *)
(***************************************************************************)
C7Columns ==
    RuleTable(ModeOf(args.group_by),
              Len(args.request_threshold_by_country) # 0)

C7_RuleTable ==
    SelectGroupByCall =>
        /\ ret.value = <<SelectFragment(C7Columns), GroupByFragment(C7Columns)>>
        /\ ModeOf(args.group_by) = "other" => ret.value = <<"", "">>

\* mode 'URI' in upper case with a non-empty mapping: country is added
C7_Witness ==
    /\ SelectGroupByCall
    /\ args.group_by = "URI"
    /\ args.request_threshold_by_country = "{\"US\": 50}"
    /\ ret.value = <<"httprequest.country as country, httprequest.uri as uri,",
                     ", country, uri">>

C7_WitnessOther ==
    /\ SelectGroupByCall
    /\ args.group_by = "country,uri"
    /\ args.request_threshold_by_country = "{\"US\": 50}"
    /\ ret.value = <<"", "">>

(***************************************************************************)
(* C8: for mode 'uri' the grouping columns are the uri-only fragments when *)
(* the thresholds argument is the JSON text of an empty mapping, "{}", and *)
(* the country-and-uri fragments when it is '{"US":10}'.                   *)
(***************************************************************************)
C8_UriWithEmptyMapping ==
    (SelectGroupByCall /\ args.group_by = "uri") =>
        /\ args.request_threshold_by_country = "{}" =>
               ret.value = <<"httprequest.uri as uri,", ", uri">>
        /\ args.request_threshold_by_country = "{\"US\":10}" =>
               ret.value[2] = ", country, uri"

(***************************************************************************)
(* C9 as stated: build_having_clause_for_waf_logs fails with a parse error *)
(* whenever the thresholds argument is malformed JSON and with a division  *)
(* by zero whenever the schedule is 0, and build_athena_query_for_waf_logs *)
(* propagates either failure.                                              *)
(***************************************************************************)
C9Call ==
    fn \in {"build_having_clause_for_waf_logs",
            "build_athena_query_for_waf_logs"}

C9_Original ==
    C9Call =>
        /\ args.request_threshold_by_country \in MalformedTexts \cup {""}
             => ret.exc = "JSONDecodeError"
        /\ args.athena_query_run_schedule = 0
             => ret.exc = "ZeroDivisionError"

(***************************************************************************)
(* C9 amended: the call fails with a division by zero whenever the         *)
(* schedule is 0, whatever the thresholds argument; with a non-zero        *)
(* schedule it fails with a parse error whenever the thresholds argument   *)
(* is a non-empty text that is malformed JSON.  The query builder          *)
(* propagates either failure and returns no query.                         *)
(***************************************************************************)
C9_FailuresPropagate ==
    C9Call =>
        /\ args.athena_query_run_schedule = 0
             => ret = [exc |-> "ZeroDivisionError", value |-> ""]
        /\ (/\ args.athena_query_run_schedule # 0
            /\ args.request_threshold_by_country \in MalformedTexts)
             => ret = [exc |-> "JSONDecodeError", value |-> ""]

\* the query builder called with a malformed text and a schedule of 5
C9_Witness ==
    /\ fn = "build_athena_query_for_waf_logs"
    /\ args.request_threshold_by_country = "{\"US\": 10,}"
    /\ args.athena_query_run_schedule = 5
    /\ ret.exc = "JSONDecodeError"

\* malformed text and schedule 0 together: the division fails first
C9_WitnessBoth ==
    /\ fn = "build_athena_query_for_waf_logs"
    /\ args.request_threshold_by_country = "{\"US\": 10,}"
    /\ args.athena_query_run_schedule = 0
    /\ ret.exc = "ZeroDivisionError"

(***************************************************************************)
(* C10: in every query build_athena_query_for_waf_logs returns, the        *)
(* group-by fragment of the grouping columns follows client_ip in the      *)
(* outer SELECT list, the per-minute SELECT list, the per-minute GROUP BY  *)
(* list and the outer GROUP BY list, identically; and the source select    *)
(* extracts exactly the columns, country and uri, that the fragment names. *)
(***************************************************************************)
C10Case == fn = "build_athena_query_for_waf_logs" /\ ret.exc = "none"

\* the fragment the grouping columns give for the call's arguments
C10Fragment ==
    build_select_group_by_columns_for_waf_logs(
        args.group_by, args.request_threshold_by_country)[2]

\* the columns a fragment names, in the order country, uri
C10Named(fragment) ==
    (IF Contains(fragment, ", country") THEN <<"country">> ELSE <<>>)
    \o (IF Contains(fragment, ", uri") THEN <<"uri">> ELSE <<>>)

\* the k-th of the positions occ, counted from the left
C10Position(occ, k) ==
    CHOOSE x \in occ : Cardinality({y \in occ : y < x}) = k - 1

\* client_ip at position i comes right after the text before and right
\* before the text after
C10Between(i, before, after) ==
    /\ i > Len(before)
    /\ SubSeq(ret.value, i - Len(before), i - 1) = before
    /\ SubSeq(ret.value, i + Len("client_ip"),
              i + Len("client_ip") + Len(after) - 1) = after

C10_FragmentInAllLists ==
    C10Case =>
        LET occ == Occurrences(ret.value, "client_ip")
        IN  /\ Cardinality(occ) = 5
            \* the outer SELECT list
            /\ C10Position(occ, 1) = Len("SELECT\n\t") + 1
            /\ C10Between(C10Position(occ, 1), "SELECT\n\t",
                          C10Fragment \o ",\n\tMAX_BY(counter, counter)")
            \* the source select
            /\ C10Between(C10Position(occ, 2),
                   "\t\tSELECT\n\t\t\thttprequest.clientip as ",
                   "," \o SelectFragment(C10Named(C10Fragment))
                   \o "\n\t\t\tfrom_unixtime(timestamp/1000) as datetime\n"
                   \o "\t\tFROM\n")
            \* the per-minute SELECT list
            /\ C10Between(C10Position(occ, 3), "\n\t)\n\tSELECT\n\t\t",
                          C10Fragment \o ",\n\t\tCOUNT(*) as counter\n")
            \* the per-minute GROUP BY list
            /\ C10Between(C10Position(occ, 4), "\n\tGROUP BY\n\t\t",
                          C10Fragment
                          \o ",\n\t\tdate_trunc('minute', datetime)\n")
            \* the outer GROUP BY list
            /\ C10Between(C10Position(occ, 5), "\n) GROUP BY\n\t",
                          C10Fragment \o "\nORDER BY\n")
            /\ Count(ret.value, "httprequest.")
                 = 1 + Len(C10Named(C10Fragment))

\* grouping by country and uri: both columns in all four lists
C10_Witness ==
    /\ C10Case
    /\ args.group_by = "uri"
    /\ args.request_threshold_by_country = "{\"US\": 50}"
    /\ C10Fragment = ", country, uri"
    /\ Count(ret.value, "client_ip, country, uri") = 4
    /\ Contains(ret.value, "httprequest.country as country, ")
    /\ Contains(ret.value, "httprequest.uri as uri,")

(***************************************************************************)
(* C11: in every query build_athena_query_for_waf_logs returns, whatever   *)
(* the grouping mode string and the thresholds argument, a HAVING clause   *)
(* that refers to the column country comes with country extracted in the   *)
(* source select (httprequest.country as country) and listed in the        *)
(* per-minute SELECT and GROUP BY: the HAVING clause names no column the   *)
(* query does not produce.                                                 *)
(***************************************************************************)
\* the only position of p in s
C11Position(s, p) == CHOOSE i \in Occurrences(s, p) : TRUE

\* the text of s before the first occurrence of p
C11Before(s, p) ==
    LET occ == Occurrences(s, p)
    IN  SubSeq(s, 1, (CHOOSE i \in occ : \A j \in occ : i <= j) - 1)

\* the query from the per-minute SELECT on
C11PerMinute ==
    After(ret.value, C11Position(ret.value, "\n\t)\n\tSELECT\n") - 1)

\* the source select: the query before the per-minute SELECT
C11SourceSelect == C11Before(ret.value, "\n\t)\n\tSELECT\n")

\* the per-minute SELECT list, GROUP BY list and HAVING clause
C11SelectList ==
    C11Before(After(C11PerMinute, Len("\n\t)\n\tSELECT\n")), "\tFROM\n")

C11GroupByList ==
    C11Before(After(C11PerMinute,
                    C11Position(C11PerMinute, "\n\tGROUP BY\n")
                    + Len("\n\tGROUP BY\n") - 1),
              "\tHAVING\n")

C11Having ==
    C11Before(After(C11PerMinute,
                    C11Position(C11PerMinute, "\tHAVING\n")
                    + Len("\tHAVING\n") - 1),
              "\n) GROUP BY\n")

C11_HavingColumnsProduced ==
    C10Case =>
        (Contains(C11Having, "country") =>
            /\ Contains(C11SourceSelect, "httprequest.country as country")
            /\ Contains(C11SelectList, ", country")
            /\ Contains(C11GroupByList, ", country"))

\* a recognised mode: the HAVING clause names country and the query has it
C11_WitnessProduced ==
    /\ C10Case
    /\ args.group_by = "none"
    /\ args.request_threshold_by_country = "{\"US\": 50}"
    /\ Contains(C11Having, "country = 'US'")
    /\ Contains(C11SelectList, ", country")
    /\ Contains(C11GroupByList, ", country")

(***************************************************************************)
(* The meaning of a partition filter: the text is read as a SQL predicate  *)
(* over the partition columns year, month, day and hour, AND binding       *)
(* tighter than OR, and evaluated on a partition.                          *)
(***************************************************************************)
SqlWhitespace == {" ", "\t", "\n"}
SqlSymbols == {"(", ")", "=", "<", ">"}

\* the first position at or after i that ends a word
SqlWordEnd(s, i) ==
    CHOOSE j \in i..(Len(s) + 1) :
        /\ j > Len(s) \/ CharAt(s, j) \in SqlWhitespace \cup SqlSymbols
        /\ \A k \in i..(j - 1) : CharAt(s, k) \notin SqlWhitespace \cup SqlSymbols

\* the first position at or after i that is not whitespace
SqlSkip(s, i) ==
    CHOOSE j \in i..(Len(s) + 1) :
        /\ j > Len(s) \/ CharAt(s, j) \notin SqlWhitespace
        /\ \A k \in i..(j - 1) : CharAt(s, k) \in SqlWhitespace

\* the tokens of s from position i on: brackets, comparisons, words, numbers
RECURSIVE SqlTokensAt(_, _)
SqlTokensAt(s, i) ==
    IF i > Len(s) THEN <<>>
    ELSE IF CharAt(s, i) \in {"(", ")", "="}
    THEN <<CharAt(s, i)>> \o SqlTokensAt(s, SqlSkip(s, i + 1))
    ELSE IF CharAt(s, i) \in {"<", ">"}
    THEN IF i < Len(s) /\ CharAt(s, i + 1) = "="
         THEN <<SubSeq(s, i, i + 1)>> \o SqlTokensAt(s, SqlSkip(s, i + 2))
         ELSE <<CharAt(s, i)>> \o SqlTokensAt(s, SqlSkip(s, i + 1))
    ELSE <<SubSeq(s, i, SqlWordEnd(s, i) - 1)>>
         \o SqlTokensAt(s, SqlSkip(s, SqlWordEnd(s, i)))

SqlTokens(s, i) == SqlTokensAt(s, SqlSkip(s, i))

\* the value of a number token, leading zeros allowed
RECURSIVE SqlNumber(_)
SqlNumber(t) ==
    IF Len(t) = 0 THEN 0
    ELSE SqlNumber(SubSeq(t, 1, Len(t) - 1)) * 10
         + (CHOOSE k \in 0..9 : ToString(k) = CharAt(t, Len(t)))

SqlToken(toks, i) == IF i <= Len(toks) THEN toks[i] ELSE ""

RECURSIVE SqlOr(_, _)
RECURSIVE SqlOrRest(_, _)
RECURSIVE SqlAnd(_, _)
RECURSIVE SqlAndRest(_, _)
RECURSIVE SqlAtom(_, _)

\* a bracketed predicate, a comparison, or a between
SqlAtom(toks, i) ==
    IF SqlToken(toks, i) = "("
    THEN LET inner == SqlOr(toks, i + 1)
         IN  [ok |-> inner.ok /\ SqlToken(toks, inner.next) = ")",
              ast |-> inner.ast, next |-> inner.next + 1]
    ELSE IF SqlToken(toks, i + 1) \in {"between", "BETWEEN"}
    THEN [ok |-> /\ SqlToken(toks, i) \in {"year", "month", "day", "hour"}
                 /\ SqlToken(toks, i + 3) \in {"and", "AND"}
                 /\ i + 4 <= Len(toks),
          ast |-> [op |-> "between", col |-> SqlToken(toks, i),
                   lo |-> SqlNumber(SqlToken(toks, i + 2)),
                   hi |-> SqlNumber(SqlToken(toks, i + 4))],
          next |-> i + 5]
    ELSE [ok |-> /\ SqlToken(toks, i) \in {"year", "month", "day", "hour"}
                 /\ SqlToken(toks, i + 1) \in {"=", ">=", "<=", ">", "<"}
                 /\ i + 2 <= Len(toks),
          ast |-> [op |-> SqlToken(toks, i + 1), col |-> SqlToken(toks, i),
                   lo |-> SqlNumber(SqlToken(toks, i + 2)),
                   hi |-> SqlNumber(SqlToken(toks, i + 2))],
          next |-> i + 3]

SqlAndRest(toks, left) ==
    IF left.ok /\ SqlToken(toks, left.next) = "AND"
    THEN LET right == SqlAtom(toks, left.next + 1)
         IN  SqlAndRest(toks,
                 [ok |-> right.ok,
                  ast |-> [op |-> "and", l |-> left.ast, r |-> right.ast],
                  next |-> right.next])
    ELSE left

SqlAnd(toks, i) == SqlAndRest(toks, SqlAtom(toks, i))

SqlOrRest(toks, left) ==
    IF left.ok /\ SqlToken(toks, left.next) = "OR"
    THEN LET right == SqlAnd(toks, left.next + 1)
         IN  SqlOrRest(toks,
                 [ok |-> right.ok,
                  ast |-> [op |-> "or", l |-> left.ast, r |-> right.ast],
                  next |-> right.next])
    ELSE left

SqlOr(toks, i) == SqlOrRest(toks, SqlAnd(toks, i))

\* the predicate of a WHERE clause: all of the text must be read
SqlWhere(s) ==
    LET toks == SqlTokens(s, 1)
        pred == SqlOr(toks, 2)
    IN  [ok |-> SqlToken(toks, 1) = "WHERE" /\ pred.ok
                /\ pred.next = Len(toks) + 1,
         ast |-> pred.ast]

\* whether partition p = [year, month, day, hour] satisfies the predicate
RECURSIVE SqlHolds(_, _)
SqlHolds(ast, p) ==
    IF ast.op = "and" THEN SqlHolds(ast.l, p) /\ SqlHolds(ast.r, p)
    ELSE IF ast.op = "or" THEN SqlHolds(ast.l, p) \/ SqlHolds(ast.r, p)
    ELSE IF ast.op = "between" THEN ast.lo <= p[ast.col] /\ p[ast.col] <= ast.hi
    ELSE IF ast.op = "=" THEN p[ast.col] = ast.lo
    ELSE IF ast.op = ">=" THEN p[ast.col] >= ast.lo
    ELSE IF ast.op = "<=" THEN p[ast.col] <= ast.lo
    ELSE IF ast.op = ">" THEN p[ast.col] > ast.lo
    ELSE p[ast.col] < ast.lo

\* the hour partitions the filter is tried on: every hour of the days
\* around the ends and the middle of every month of the explored years
Partitions ==
    [year : Years, month : 1..12,
     day : {1, 2, 14, 15, 16, 27, 28, 29, 30, 31}, hour : 0..23]

(***************************************************************************)
(* C12: for start < end on the same calendar day or on two consecutive     *)
(* calendar days, also across the end of a month or a year, the filter of  *)
(* build_athena_query_part_two_for_partition is satisfied by exactly the   *)
(* hour partitions from the start's to the end's, inclusive.               *)
(***************************************************************************)
C12Consecutive ==
    date(args.start_timestamp)
      = PrevDay(args.end_timestamp.year, args.end_timestamp.month,
                args.end_timestamp.day)

C12Case == PartTwoCall /\ (SameDay \/ C12Consecutive)

\* the partitions from the start's hour to the end's hour
C12InWindow(p) ==
    IF SameDay
    THEN /\ <<p.year, p.month, p.day>> = date(args.start_timestamp)
         /\ args.start_timestamp.hour <= p.hour
         /\ p.hour <= args.end_timestamp.hour
    ELSE \/ /\ <<p.year, p.month, p.day>> = date(args.start_timestamp)
            /\ p.hour >= args.start_timestamp.hour
         \/ /\ <<p.year, p.month, p.day>> = date(args.end_timestamp)
            /\ p.hour <= args.end_timestamp.hour

C12_ExactPartitions ==
    C12Case =>
        LET where == SqlWhere(ret.value)
        IN  /\ where.ok
            /\ \A p \in Partitions : SqlHolds(where.ast, p) <=> C12InWindow(p)

\* over the end of the year: 2023-12-31 from 23h, 2024-01-01 up to 09h
C12_Witness ==
    /\ C12Case /\ ~SameDay
    /\ date(args.start_timestamp) = <<2023, 12, 31>>
    /\ args.start_timestamp.hour = 23 /\ args.end_timestamp.hour = 9
    /\ SqlWhere(ret.value).ok
    /\ Cardinality({p \in Partitions :
                       SqlHolds(SqlWhere(ret.value).ast, p)}) = 11

\* over the end of a month: 2024-01-31 to 2024-02-01
C12_WitnessMonth ==
    /\ C12Case /\ ~SameDay
    /\ date(args.start_timestamp) = <<2024, 1, 31>>
    /\ SqlWhere(ret.value).ast.op = "and"

====
